---- MODULE Spec2Model ----
(***************************************************************************)
(* The multi-chain synchronisation jobs of the Paycrypt admin backend:     *)
(* syncContractMetrics, syncOrderHistory and syncTotalVolume, the          *)
(* SyncStatus progress cursor they share, and the Order /                  *)
(* ContractMetrics / TotalVolume stores they write.                        *)
(*                                                                         *)
(* Every await of the code is an interleaving point: a task (one           *)
(* invocation of an entry point, by a cron tick or by the admin            *)
(* force-sync) takes one step per database or RPC call.  Each database     *)
(* and RPC call may fail; the number of failures of one behaviour is       *)
(* bounded by MaxFaults.                                                   *)
(***************************************************************************)
EXTENDS Integers, Sequences, FiniteSets, TLC

\* ------------------------------------------------------------------ bounds
MaxBlock  == 2      \* highest block number an RPC endpoint reports
MaxRuns   == 2      \* entry-point invocations started in one behaviour
MaxFaults == 2      \* failed database / RPC calls in one behaviour
MaxOverlapFaults == 1  \* the same, where two invocations overlap
MaxHeight == 10        \* highest block number given to a helper under study
MaxTicks == 4          \* clock ticks in one behaviour
MaxSnapshots == 1      \* volume snapshots computed in one behaviour
MaxRpcCalls == 5       \* RPC calls in one behaviour
MaxDigits == 2         \* digits of the amount of a time range
MaxStarts == 2         \* process starts (migration runs) in one behaviour
MaxDocs == 2           \* SyncStatus documents of one (syncType, chainId)

\* ------------------------------------------------------- program constants
\* priceService.js:313 (const batchSize = 5000), scaled to the model's chain
batchSize == 2
\* priceService.js:305 (currentBlock - 100000), scaled to the model's chain
INITIAL_LOOKBACK == 2

\* The chains of the configuration that the model gives an RPC URL (Base,
\* Lisk), in the order of CONTRACTS.
Chains == {8453, 1135}

\* The invocations that may be in progress at once.  They are
\* interchangeable: a new invocation takes the lowest free one.
Tasks == {1, 2}
Jobs  == {"metrics", "orders", "volume"}
SyncTypes == {"metrics", "orders"}

Max(a, b) == IF a >= b THEN a ELSE b
Min(a, b) == IF a <= b THEN a ELSE b

\* ------------------------------------------------------------ the chains
\* The OrderCreated logs the contracts have emitted.  Orders 2 and 3 of Base
\* were created by one transaction; orders 1 and 2 exist on both chains.
Events ==
  { [chainId |-> 8453, orderId |-> "1", txnHash |-> "0xa", blockNumber |-> 1, logIndex |-> 0],
    [chainId |-> 8453, orderId |-> "2", txnHash |-> "0xb", blockNumber |-> 2, logIndex |-> 0],
    [chainId |-> 8453, orderId |-> "3", txnHash |-> "0xb", blockNumber |-> 2, logIndex |-> 1],
    [chainId |-> 8453, orderId |-> "4", txnHash |-> "0xc", blockNumber |-> 3, logIndex |-> 0],
    [chainId |-> 1135, orderId |-> "1", txnHash |-> "0xa", blockNumber |-> 1, logIndex |-> 0],
    [chainId |-> 1135, orderId |-> "2", txnHash |-> "0xd", blockNumber |-> 2, logIndex |-> 0] }

\* queryFilter(filter, lo, hi): the logs of chain c in blocks lo..hi
queryFilter(c, lo, hi) ==
  {e \in Events : e.chainId = c /\ e.blockNumber >= lo /\ e.blockNumber <= hi}

Before(a, b) ==
  \/ a.blockNumber < b.blockNumber
  \/ a.blockNumber = b.blockNumber /\ a.logIndex < b.logIndex

\* A set of logs as the array the RPC returns: by block, then by log index.
RECURSIVE InLogOrder(_)
InLogOrder(S) ==
  IF S = {} THEN <<>>
  ELSE LET first == CHOOSE e \in S : \A o \in S \ {e} : Before(e, o)
       IN <<first>> \o InLogOrder(S \ {first})

\* --------------------------------------------------------------- the state
VARIABLES
  rpcUrls,       \* getEnabledChains(): the chains with an RPC URL, in order
  initialized,   \* contractService.initialized
  head,          \* per chain: the highest block number the endpoint has reported
  status,        \* the SyncStatus collection: (syncType, chainId) -> document
  orders,        \* the Order collection: a set of documents
  nextId,        \* the next Order _id
  metricsRows,   \* the ContractMetrics collection: documents per chain
  snapshots,     \* the TotalVolume collection, oldest first
  runs,          \* entry-point invocations started so far (also the clock)
  faultsLeft,    \* database / RPC calls that may still fail
  task,          \* per task: the invocation's position and locals
  call,          \* the call of a helper under study: its arguments and result
  clock,         \* Date.now()
  priceCache,    \* priceService.priceCache: id -> {prices, timestamp}
  lastApiCall,   \* priceService.lastApiCall
  tokens,        \* the token details the contracts hold, per token
  lastRpcCall,   \* contractService.lastRpcCall
  rpcLog,        \* observation only: the start times of the RPC calls
  indexes,       \* the names of the indexes of the syncstatuses collection
  docCount,      \* syncstatuses: (syncType, chainId) -> number of documents
  readyState,    \* mongoose.connection.readyState of the process
  admin,         \* the Admin document: loginAttempts and lockUntil
  logins,        \* per login request in flight: its position and locals
  failedLogins   \* observation only: failed logins in a row

\* The state that the sync jobs leave alone.
serviceVars == <<clock, priceCache, lastApiCall>>
connectorVars == <<tokens, lastRpcCall, rpcLog>>
dbVars == <<indexes, docCount, readyState>>
authVars == <<admin, logins, failedLogins>>
auxVars == <<call, serviceVars, connectorVars, dbVars, authVars>>

vars == <<rpcUrls, initialized, head, status, orders, nextId, metricsRows,
          snapshots, runs, faultsLeft, task, auxVars>>

\* No helper call is under study.
NoCall == [fn |-> "none"]

\* new Date(): the clock advances with every started invocation
now == runs

\* ---------------------------------------------------- priceService (model)
\* part_005:26 (cacheExpiry = 300000) and part_005:28 (minTimeBetweenCalls =
\* 10000), scaled to the model's clock
cacheExpiry == 2
minTimeBetweenCalls == 1

\* The CoinGecko ids requested and the quotes the price API answers with.
CoinIds == {"tether", "usd-coin"}
Quotes == {1, 2}

NoEntry == [exists |-> FALSE, prices |-> 0, timestamp |-> 0]

\* The process starts long after the epoch: the first API call never waits.
StartTime == cacheExpiry + minTimeBetweenCalls

\* new PriceService() and the clock at the start of the process
ServicesIdle ==
  /\ clock = StartTime
  /\ priceCache = [id \in CoinIds |-> NoEntry]
  /\ lastApiCall = 0

\* The tokens the contracts support: their chain and their price-feed id
\* (getTokenSymbol, then getCoinGeckoId, of the token's name).
TokenIds == {1, 2, 3}
tokenChain == <<8453, 8453, 1135>>
tokenCoin == <<"tether", "usd-coin", "tether">>
decimals == 1

\* A new ContractService, the contracts without volume.
ConnectorIdle ==
  /\ tokens = [id \in TokenIds |-> [totalVolume |-> <<"0">>, isActive |-> TRUE]]
  /\ lastRpcCall = 0
  /\ rpcLog = <<>>

\* ------------------------------------------------------ SyncStatus (model)
\* The schema defaults of a SyncStatus document; exists = FALSE is "no
\* document" in the store and "syncStatus undefined" in a task.
NoStatus ==
  [exists |-> FALSE, lastSyncBlock |-> 0, isRunning |-> FALSE,
   lastError |-> "null", successCount |-> 0, errorCount |-> 0]

NewStatus == [NoStatus EXCEPT !.exists = TRUE]

StatusFields == {"lastSyncBlock", "isRunning", "lastError", "successCount", "errorCount"}

\* The paths an assignment marks modified: those whose value changes.
Modified(old, new) == {f \in StatusFields : old[f] # new[f]}

\* document.save(): $set of the modified paths on the stored document
save(stored, d, dirty) ==
  [exists        |-> TRUE,
   lastSyncBlock |-> IF "lastSyncBlock" \in dirty THEN d.lastSyncBlock ELSE stored.lastSyncBlock,
   isRunning     |-> IF "isRunning" \in dirty THEN d.isRunning ELSE stored.isRunning,
   lastError     |-> IF "lastError" \in dirty THEN d.lastError ELSE stored.lastError,
   successCount  |-> IF "successCount" \in dirty THEN d.successCount ELSE stored.successCount,
   errorCount    |-> IF "errorCount" \in dirty THEN d.errorCount ELSE stored.errorCount]

\* The assignments of updateSync(block, success, error), before its save.
updateSyncDoc(d, block, success, error) ==
  [d EXCEPT !.lastSyncBlock = Max(d.lastSyncBlock, block),
            !.isRunning     = FALSE,
            !.lastError     = error,
            !.successCount  = IF success THEN @ + 1 ELSE @,
            !.errorCount    = IF success THEN @ ELSE @ + 1]

\* ----------------------------------------------------------- Order (model)
\* An Order document: the event's fields (requestId, userWallet,
\* tokenAddress, amount and timestamp are functions of the event and are not
\* carried), the _id, and the createdAt / updatedAt of the schema's
\* timestamps option.
OrderDoc(e, id, at) ==
  [id |-> id, chainId |-> e.chainId, orderId |-> e.orderId,
   txnHash |-> e.txnHash, blockNumber |-> e.blockNumber,
   createdAt |-> at, updatedAt |-> at]

\* A variant, Order.create(orderData) in place of the upsert: a stored (chainId,
\* orderId) is a duplicate key error.
insertOrFail(S, e, id, at) ==
  IF \E r \in S : r.chainId = e.chainId /\ (r.orderId = e.orderId \/ r.txnHash = e.txnHash)
  THEN [code |-> 11000, orders |-> S, inserted |-> FALSE]
  ELSE [code |-> 0, inserted |-> TRUE, orders |-> S \cup {OrderDoc(e, id, at)}]

\* A variant, Order.create(orderData) on a collection without the unique indexes.
createOrder(S, e, id, at) ==
  [code |-> 0, inserted |-> TRUE, orders |-> S \cup {OrderDoc(e, id, at)}]

\* Order.findOneAndUpdate({chainId, orderId}, orderData, {upsert: true}) on
\* collection S with the two unique indexes, at time `at`: code 0 is success,
\* 11000 a duplicate key on (chainId, txnHash).  An update $sets the
\* event's fields and updatedAt; an insert also sets createdAt.
upsertOrder(S, e, id, at) ==
  LET match == {r \in S : r.chainId = e.chainId /\ r.orderId = e.orderId}
      clash(others) == \E r \in others : r.chainId = e.chainId /\ r.txnHash = e.txnHash
  IN IF match # {}
     THEN LET r == CHOOSE x \in match : TRUE
          IN IF clash(S \ {r})
             THEN [code |-> 11000, orders |-> S, inserted |-> FALSE]
             ELSE [code |-> 0, inserted |-> FALSE,
                   orders |-> (S \ {r}) \cup
                      {[r EXCEPT !.txnHash = e.txnHash,
                                 !.blockNumber = e.blockNumber,
                                 !.updatedAt = at]}]
     ELSE IF clash(S)
          THEN [code |-> 11000, orders |-> S, inserted |-> FALSE]
          ELSE [code |-> 0, inserted |-> TRUE,
                orders |-> S \cup {OrderDoc(e, id, at)}]

\* ------------------------------------------------ contractService (model)
\* getOrderCreatedEvents(chainId, fromBlock, toBlock): the logs it collects
\* when the sub-batches starting at failedSub fail (a range of more than
\* batchSize blocks is fetched in sub-batches, each failure skipped).
SubBatches(from, to) == {s \in from..to : (s - from) % batchSize = 0}

collectEvents(c, from, to, failedSub) ==
  IF to - from > batchSize
  THEN UNION {queryFilter(c, s, Min(s + batchSize - 1, to)) :
                s \in SubBatches(from, to) \ failedSub}
  ELSE queryFilter(c, from, to)

\* --------------------------------------------------------------- the tasks
IdleTask ==
  [pc |-> "idle", job |-> "none", ci |-> 0,
   syncStatus |-> NoStatus, dirty |-> {},
   currentBlock |-> 0, fromBlock |-> 0, start |-> 0, queue |-> <<>>,
   catchBlock |-> 0, tokenChains |-> {},
   \* observation only: whether the current sync...ForChain call has made an
   \* RPC call or a store write, the batches whose fetch failed, the orders
   \* it lost to an error, the orders rejected as duplicate keys, how the
   \* last call ended, how the promise settled
   touched |-> FALSE, failed |-> {}, lost |-> {}, duplicates |-> {},
   last |-> "none", result |-> "pending",
   \* observation only: the ContractMetrics records the invocation has
   \* created, per chain; the batches <<start, end>> the current order sync
   \* of a chain has requested, in order
   created |-> [c \in Chains |-> 0], requested |-> <<>>]

\* A variant, an entry point without its try / catch: the error rejects
\* the returned promise.
entryRethrows == "rejected"

\* The catch of the entry point (syncContractMetrics, syncOrderHistory,
\* syncTotalVolume) logs the error: the returned promise resolves.
entryCatch == "resolved"

\* contractService.getEnabledChainIds(): the keys of this.chains
getEnabledChainIds == rpcUrls
NumChains == Len(getEnabledChainIds)

chainOf(tk) == getEnabledChainIds[tk.ci]
key(tk) == <<tk.job, chainOf(tk)>>

\* sync...ForChain returns (normally): the for loop of the entry point goes on.
Return(tk, outcome) ==
  [tk EXCEPT !.last = outcome,
             !.requested = <<>>,
             !.ci = @ + 1,
             !.pc = IF tk.ci < NumChains THEN "getOrCreate" ELSE "done",
             !.result = IF tk.ci < NumChains THEN @ ELSE "resolved"]

\* sync...ForChain rejects: the entry point's catch ends the for loop.
Propagate(tk) ==
  [tk EXCEPT !.last = "threw", !.pc = "done", !.result = entryCatch]

\* An exception inside the try of sync...ForChain with syncStatus defined.
Catch(tk) ==
  [tk EXCEPT !.pc = IF tk.job = "orders" THEN "catchGetBlock" ELSE "catchUpdateSync",
             !.catchBlock = 0]

Touch(tk) == [tk EXCEPT !.touched = TRUE]

\* A database or RPC call fails / succeeds.
Fault == faultsLeft > 0 /\ faultsLeft' = faultsLeft - 1
NoFault == faultsLeft' = faultsLeft

storeVars == <<status, orders, nextId, metricsRows, snapshots>>

\* The migrated database with the process connected to it.
DbIdle ==
  /\ indexes = {"_id_", "syncType_1_chainId_1"}
  /\ docCount = [k \in SyncTypes \X Chains |-> 0]
  /\ readyState = 1

\* The login requests that may be in flight at once.
Requests == {1, 2}

\* No login request is being handled.
IdleLogin == [pc |-> "idle", password |-> "none", response |-> 0,
              admin |-> [loginAttempts |-> 0, lockUntil |-> {}]]

\* The default admin, never locked (lockUntil: null is the empty set), and
\* no request in flight.
AuthIdle ==
  /\ admin = [loginAttempts |-> 0, lockUntil |-> {}]
  /\ logins = [r \in Requests |-> IdleLogin]
  /\ failedLogins = 0

InitStores ==
  /\ DbIdle
  /\ AuthIdle
  /\ initialized = FALSE
  /\ head = [c \in Chains |-> 0]
  /\ status = [k \in SyncTypes \X Chains |-> NoStatus]
  /\ orders = {}
  /\ nextId = 1
  /\ metricsRows = [c \in Chains |-> 0]
  /\ snapshots = <<>>
  /\ runs = 0
  /\ task = [t \in Tasks |-> IdleTask]

\* Base and Lisk are configured.
Init ==
  /\ InitStores
  /\ rpcUrls = <<8453, 1135>>
  /\ faultsLeft = MaxFaults
  /\ call = NoCall
  /\ ServicesIdle
  /\ ConnectorIdle

\* contractService.initialize(), after the database connection
initialize ==
  /\ ~initialized
  /\ initialized' = TRUE
  /\ UNCHANGED <<auxVars, rpcUrls, head, storeVars, runs, faultsLeft, task>>

\* The synchronous head of an entry point: the isInitialized check, then the
\* first chain (or the token fetch of the volume sync).
Start(t, j) ==
  /\ task[t].pc = "idle"
  /\ \A u \in Tasks : u < t => task[u].pc # "idle"
  /\ runs < MaxRuns
  /\ runs' = runs + 1
  /\ task' = [task EXCEPT ![t] =
        IF ~initialized
        THEN Propagate([IdleTask EXCEPT !.job = j])
        ELSE [IdleTask EXCEPT !.job = j, !.ci = 1,
                !.pc = IF j = "volume" THEN "getAllTokensAcrossChains"
                                       ELSE "getOrCreate"]]
  /\ UNCHANGED <<auxVars, rpcUrls, initialized, head, storeVars, faultsLeft>>

\* The three entry points, each called by its cron.schedule tick and by the
\* admin's forceSyncAll.
syncContractMetrics(t) == Start(t, "metrics")
syncOrderHistory(t) == Start(t, "orders")
syncTotalVolume(t) == Start(t, "volume")

\* ------------------------------------------- SyncStatus.getOrCreate (steps)
\* The locals of sync...ForChain at its start.
Enter(tk) ==
  [tk EXCEPT !.syncStatus = NoStatus, !.dirty = {},
             !.currentBlock = 0, !.fromBlock = 0, !.start = 0, !.queue = <<>>,
             !.catchBlock = 0, !.touched = FALSE, !.failed = {}, !.lost = {},
             !.duplicates = {}]

\* A variant without the "already running" check.
ignoreRunning(tk) == [tk EXCEPT !.pc = "markAsRunning"]

\* The "already running" check on the loaded document.
checkRunning(tk) ==
  IF tk.syncStatus.isRunning
  THEN Return(tk, "skipped")
  ELSE [tk EXCEPT !.pc = "markAsRunning"]

\* getOrCreate: this.findOne({syncType, chainId}); a rejection is rethrown
\* to sync...ForChain, whose catch finds syncStatus undefined and returns.
getOrCreate(t) ==
  LET tk == Enter(task[t]) IN
  /\ task[t].pc = "getOrCreate"
  /\ \/ /\ Fault
        /\ task' = [task EXCEPT ![t] = Return(tk, "nostatus")]
     \/ /\ NoFault
        /\ task' = [task EXCEPT ![t] =
              IF status[key(tk)].exists
              THEN checkRunning([tk EXCEPT !.syncStatus = status[key(tk)]])
              ELSE [tk EXCEPT !.pc = "getOrCreateSave"]]
  /\ UNCHANGED <<auxVars, rpcUrls, initialized, head, storeVars, runs>>

\* getOrCreate: new this({syncType, chainId}).save(); the unique index on
\* (syncType, chainId) rejects a second document.
getOrCreateSave(t) ==
  LET tk == task[t] IN
  /\ tk.pc = "getOrCreateSave"
  /\ \/ /\ Fault
        /\ task' = [task EXCEPT ![t] = Return(tk, "nostatus")]
        /\ UNCHANGED status
     \/ /\ NoFault
        /\ status[key(tk)].exists
        /\ task' = [task EXCEPT ![t] = Return(tk, "nostatus")]
        /\ UNCHANGED status
     \/ /\ NoFault
        /\ ~status[key(tk)].exists
        /\ status' = [status EXCEPT ![key(tk)] = NewStatus]
        /\ task' = [task EXCEPT ![t] =
              checkRunning(Touch([tk EXCEPT !.syncStatus = NewStatus]))]
  /\ UNCHANGED <<auxVars, rpcUrls, initialized, head, orders, nextId, metricsRows, snapshots, runs>>

\* syncStatus.markAsRunning(), then the isInitialized check (which passes:
\* the entry point has checked it and nothing resets it).
markAsRunning(t) ==
  LET tk == task[t]
      d  == [tk.syncStatus EXCEPT !.isRunning = TRUE]
      dirty == tk.dirty \cup Modified(tk.syncStatus, d)
  IN
  /\ tk.pc = "markAsRunning"
  /\ \/ /\ Fault
        /\ task' = [task EXCEPT ![t] =
              Catch([tk EXCEPT !.syncStatus = d, !.dirty = dirty])]
        /\ UNCHANGED status
     \/ /\ NoFault
        /\ status' = [status EXCEPT ![key(tk)] = save(@, d, dirty)]
        /\ task' = [task EXCEPT ![t] =
              Touch([tk EXCEPT !.syncStatus = d, !.dirty = {},
                       !.pc = IF tk.job = "metrics" THEN "getContractMetrics"
                                                   ELSE "getCurrentBlockNumber"])]
  /\ UNCHANGED <<auxVars, rpcUrls, initialized, head, orders, nextId, metricsRows, snapshots, runs>>

\* ------------------------------------------------ syncOrderHistoryForChain
\* A variant, a first sync that starts at block 0 (no lookback).
startingAtZero(lastSyncBlock, currentBlock) == lastSyncBlock

\* The starting block: the cursor, or for a cursor of 0 the lookback.
startingBlock(lastSyncBlock, currentBlock) ==
  IF lastSyncBlock = 0 THEN Max(0, currentBlock - INITIAL_LOOKBACK)
                       ELSE lastSyncBlock

\* A variant, the for loop's head with `start < currentBlock`: the last
\* block is left out.
loopBefore(tk, s) ==
  [tk EXCEPT !.start = s, !.queue = <<>>,
             !.pc = IF s < tk.currentBlock THEN "getOrderCreatedEvents"
                                           ELSE "updateSync"]

\* The for loop's head at `start`: the next batch, or past the loop.
loopAt(tk, s) ==
  [tk EXCEPT !.start = s, !.queue = <<>>,
             !.pc = IF s <= tk.currentBlock THEN "getOrderCreatedEvents"
                                            ELSE "updateSync"]

\* contractService.getCurrentBlockNumber(chainId) in the try: the order sync
\* goes on to its batches, the metrics sync to updateSync.
getCurrentBlockNumber(t) ==
  LET tk == task[t] c == chainOf(tk) IN
  /\ tk.pc = "getCurrentBlockNumber"
  /\ \/ /\ Fault
        /\ task' = [task EXCEPT ![t] = Catch(Touch(tk))]
        /\ UNCHANGED head
     \/ /\ NoFault
        /\ \E b \in head[c]..MaxBlock :
             /\ head' = [head EXCEPT ![c] = b]
             /\ task' = [task EXCEPT ![t] =
                  IF tk.job = "metrics"
                  THEN Touch([tk EXCEPT !.currentBlock = b, !.pc = "updateSync"])
                  ELSE LET from == startingBlock(tk.syncStatus.lastSyncBlock, b)
                       IN loopAt(Touch([tk EXCEPT !.currentBlock = b,
                                                  !.fromBlock = from,
                                                  !.requested = <<>>]), from)]
  /\ UNCHANGED <<auxVars, rpcUrls, initialized, storeVars, runs>>

\* A variant, a batch's catch that leaves the loop (break).
batchBreaks(tk) ==
  [tk EXCEPT !.failed = @ \cup {tk.start}, !.queue = <<>>, !.pc = "updateSync"]

\* The catch of one batch: the error is logged, the loop goes on.
batchFailed(tk) ==
  loopAt([tk EXCEPT !.failed = @ \cup {tk.start}], tk.start + batchSize)

\* One batch [start, end] of the loop: getOrderCreatedEvents either rejects
\* (the batch's catch goes on with the next batch) or returns the orders of
\* the logs whose block timestamp it could read, in log order.
getOrderCreatedEvents(t) ==
  LET tk  == task[t]
      c   == chainOf(tk)
      end == Min(tk.start + batchSize - 1, tk.currentBlock)
      logs == collectEvents(c, tk.start, end, {})
      asked == [tk EXCEPT !.requested = Append(@, <<tk.start, end>>)]
  IN
  /\ tk.pc = "getOrderCreatedEvents"
  /\ \/ /\ Fault
        /\ task' = [task EXCEPT ![t] = batchFailed(Touch(asked))]
     \/ \E dropped \in SUBSET logs :
        /\ Cardinality(dropped) <= faultsLeft
        /\ faultsLeft' = faultsLeft - Cardinality(dropped)
        /\ LET got == InLogOrder(logs \ dropped)
               tk1 == Touch([asked EXCEPT !.lost = @ \cup {e.orderId : e \in dropped}])
           IN task' = [task EXCEPT ![t] =
                IF got = <<>> THEN loopAt(tk1, tk.start + batchSize)
                ELSE [tk1 EXCEPT !.queue = got, !.pc = "findOneAndUpdate"]]
  /\ UNCHANGED <<auxVars, rpcUrls, initialized, head, storeVars, runs>>

\* After one order of the batch: the next order, or the delay and the next
\* batch.
nextOrder(tk) ==
  IF Len(tk.queue) > 1 THEN [tk EXCEPT !.queue = Tail(@)]
  ELSE loopAt(tk, tk.start + batchSize)

\* Order.findOneAndUpdate for the next order of the batch; every error is
\* caught per order (a duplicate key is counted, another error logged).
findOneAndUpdate(t) ==
  LET tk == task[t]
      e  == Head(tk.queue)
      r  == upsertOrder(orders, e, nextId, now)
      missed == [tk EXCEPT !.lost = @ \cup {e.orderId}]
      duplicate == [tk EXCEPT !.duplicates = @ \cup {e.orderId}]
  IN
  /\ tk.pc = "findOneAndUpdate"
  /\ \/ /\ Fault
        /\ task' = [task EXCEPT ![t] = nextOrder(Touch(missed))]
        /\ UNCHANGED <<orders, nextId>>
     \/ /\ NoFault
        /\ orders' = r.orders
        /\ nextId' = IF r.inserted THEN nextId + 1 ELSE nextId
        /\ task' = [task EXCEPT ![t] =
              nextOrder(Touch(IF r.code = 0 THEN tk ELSE duplicate))]
  /\ UNCHANGED <<auxVars, rpcUrls, initialized, head, status, metricsRows, snapshots, runs>>

\* ------------------------------------------------------ updateSync (steps)
\* syncStatus.updateSync(currentBlock, true) at the end of the try; a
\* rejected save is rethrown into the catch of sync...ForChain.
updateSync(t) ==
  LET tk == task[t]
      d  == updateSyncDoc(tk.syncStatus, tk.currentBlock, TRUE, "null")
      dirty == tk.dirty \cup Modified(tk.syncStatus, d)
  IN
  /\ tk.pc = "updateSync"
  /\ \/ /\ Fault
        /\ task' = [task EXCEPT ![t] =
              Catch([tk EXCEPT !.syncStatus = d, !.dirty = dirty])]
        /\ UNCHANGED status
     \/ /\ NoFault
        /\ status' = [status EXCEPT ![key(tk)] = save(@, d, dirty)]
        /\ task' = [task EXCEPT ![t] =
              Return(Touch([tk EXCEPT !.syncStatus = d, !.dirty = {}]), "success")]
  /\ UNCHANGED <<auxVars, rpcUrls, initialized, head, orders, nextId, metricsRows, snapshots, runs>>

\* The order sync's catch: getCurrentBlockNumber(chainId).catch(() => 0)
catchGetBlock(t) ==
  LET tk == task[t] c == chainOf(tk) IN
  /\ tk.pc = "catchGetBlock"
  /\ \/ /\ Fault
        /\ task' = [task EXCEPT ![t] =
              Touch([tk EXCEPT !.catchBlock = 0, !.pc = "catchUpdateSync"])]
        /\ UNCHANGED head
     \/ /\ NoFault
        /\ \E b \in head[c]..MaxBlock :
             /\ head' = [head EXCEPT ![c] = b]
             /\ task' = [task EXCEPT ![t] =
                  Touch([tk EXCEPT !.catchBlock = b, !.pc = "catchUpdateSync"])]
  /\ UNCHANGED <<auxVars, rpcUrls, initialized, storeVars, runs>>

\* The catch's syncStatus.updateSync(block, false, error.message); its
\* rejection leaves sync...ForChain.
catchUpdateSync(t) ==
  LET tk == task[t]
      d  == updateSyncDoc(tk.syncStatus, tk.catchBlock, FALSE, "error")
      dirty == tk.dirty \cup Modified(tk.syncStatus, d)
  IN
  /\ tk.pc = "catchUpdateSync"
  /\ \/ /\ Fault
        /\ task' = [task EXCEPT ![t] =
              Propagate([tk EXCEPT !.syncStatus = d, !.dirty = dirty])]
        /\ UNCHANGED status
     \/ /\ NoFault
        /\ status' = [status EXCEPT ![key(tk)] = save(@, d, dirty)]
        /\ task' = [task EXCEPT ![t] =
              Return(Touch([tk EXCEPT !.syncStatus = d, !.dirty = {}]), "failure")]
  /\ UNCHANGED <<auxVars, rpcUrls, initialized, head, orders, nextId, metricsRows, snapshots, runs>>

\* --------------------------------------------- syncContractMetricsForChain
\* contractService.getContractMetrics(chainId)
getContractMetrics(t) ==
  LET tk == task[t] IN
  /\ tk.pc = "getContractMetrics"
  /\ \/ /\ Fault
        /\ task' = [task EXCEPT ![t] = Catch(Touch(tk))]
     \/ /\ NoFault
        /\ task' = [task EXCEPT ![t] = Touch([tk EXCEPT !.pc = "contractMetricsSave"])]
  /\ UNCHANGED <<auxVars, rpcUrls, initialized, head, storeVars, runs>>

\* A variant of the save that keeps one record per chain, overwriting it.
replaceContractMetrics(rows, c) == [rows EXCEPT ![c] = 1]

\* The collection after the insert of a new ContractMetrics document.
newContractMetrics(rows, c) == [rows EXCEPT ![c] = @ + 1]

\* new ContractMetrics(metrics).save()
contractMetricsSave(t) ==
  LET tk == task[t] IN
  /\ tk.pc = "contractMetricsSave"
  /\ \/ /\ Fault
        /\ task' = [task EXCEPT ![t] = Catch(tk)]
        /\ UNCHANGED metricsRows
     \/ /\ NoFault
        /\ metricsRows' = newContractMetrics(metricsRows, chainOf(tk))
        /\ task' = [task EXCEPT ![t] =
             Touch([tk EXCEPT !.pc = "getCurrentBlockNumber",
                              !.created[chainOf(tk)] = @ + 1])]
  /\ UNCHANGED <<auxVars, rpcUrls, initialized, head, status, orders, nextId, snapshots, runs>>

\* --------------------------------------------------------- syncTotalVolume
\* The entry point returns without a snapshot (no token, no recognised
\* token, or an error its catch logged).
volumeEnd(tk) == [tk EXCEPT !.pc = "done", !.result = entryCatch]

\* contractService.getAllTokensAcrossChains(): a chain whose token fetch
\* fails is skipped; `got` are the chains whose tokens were read.
getAllTokensAcrossChains(t) ==
  LET tk == task[t] IN
  /\ tk.pc = "getAllTokensAcrossChains"
  /\ \E got \in SUBSET Chains :
       /\ got \subseteq {chainOf([ci |-> i]) : i \in 1..NumChains}
       /\ Cardinality({chainOf([ci |-> i]) : i \in 1..NumChains} \ got) <= faultsLeft
       /\ faultsLeft' = faultsLeft - Cardinality({chainOf([ci |-> i]) : i \in 1..NumChains} \ got)
       /\ task' = [task EXCEPT ![t] =
            IF got = {} THEN [tk EXCEPT !.pc = "done", !.result = "resolved"]
            ELSE [tk EXCEPT !.tokenChains = got, !.pc = "fetchPrices"]]
  /\ UNCHANGED <<auxVars, rpcUrls, initialized, head, storeVars, runs>>

\* priceService.fetchPrices(coinGeckoIds)
fetchPrices(t) ==
  LET tk == task[t] IN
  /\ tk.pc = "fetchPrices"
  /\ \/ /\ Fault
        /\ task' = [task EXCEPT ![t] = volumeEnd(tk)]
     \/ /\ NoFault
        /\ task' = [task EXCEPT ![t] = [tk EXCEPT !.pc = "volumeSnapshotSave"]]
  /\ UNCHANGED <<auxVars, rpcUrls, initialized, head, storeVars, runs>>

\* new TotalVolume({...}).save()
volumeSnapshotSave(t) ==
  LET tk == task[t] IN
  /\ tk.pc = "volumeSnapshotSave"
  /\ \/ /\ Fault
        /\ task' = [task EXCEPT ![t] = volumeEnd(tk)]
        /\ UNCHANGED snapshots
     \/ /\ NoFault
        /\ snapshots' = Append(snapshots, [chains |-> tk.tokenChains, timestamp |-> now])
        /\ task' = [task EXCEPT ![t] = [tk EXCEPT !.pc = "done", !.result = "resolved"]]
  /\ UNCHANGED <<auxVars, rpcUrls, initialized, head, status, orders, nextId, metricsRows, runs>>

\* The promise of the entry point has settled; the caller's .catch logs a
\* rejection.  The task is free for the next invocation.
settle(t) ==
  /\ task[t].pc = "done"
  /\ task' = [task EXCEPT ![t] = IdleTask]
  /\ UNCHANGED <<auxVars, rpcUrls, initialized, head, storeVars, runs, faultsLeft>>

\* The steps of an order sync, of a metrics sync, of a volume sync.
OrderStep(t) ==
  \/ syncOrderHistory(t)
  \/ getOrCreate(t)
  \/ getOrCreateSave(t)
  \/ markAsRunning(t)
  \/ getCurrentBlockNumber(t)
  \/ getOrderCreatedEvents(t)
  \/ findOneAndUpdate(t)
  \/ updateSync(t)
  \/ catchGetBlock(t)
  \/ catchUpdateSync(t)
  \/ settle(t)

MetricsStep(t) ==
  \/ syncContractMetrics(t)
  \/ getContractMetrics(t)
  \/ contractMetricsSave(t)

VolumeStep(t) ==
  \/ syncTotalVolume(t)
  \/ getAllTokensAcrossChains(t)
  \/ fetchPrices(t)
  \/ volumeSnapshotSave(t)

\* One process with Base and Lisk configured, its invocations one after the
\* other: any entry point.
Next == initialize \/ OrderStep(1) \/ MetricsStep(1) \/ VolumeStep(1)

Spec == Init /\ [][Next]_vars

\* Two invocations of the order sync that may overlap (two ticks, or a tick
\* and the admin's force-sync), with Base alone configured.
InitBase ==
  /\ InitStores
  /\ rpcUrls = <<8453>>
  /\ faultsLeft = MaxFaults
  /\ call = NoCall
  /\ ServicesIdle
  /\ ConnectorIdle

InitOverlap ==
  /\ InitStores
  /\ rpcUrls = <<8453>>
  /\ faultsLeft = MaxOverlapFaults
  /\ call = NoCall
  /\ ServicesIdle
  /\ ConnectorIdle

NextOverlap == initialize \/ \E t \in Tasks : OrderStep(t)

SpecOverlap == InitOverlap /\ [][NextOverlap]_vars

\* One process with Base alone configured, its invocations one after the
\* other: any entry point.
SpecBase == InitBase /\ [][Next]_vars

\* ================================================================ claims
AllKeys == SyncTypes \X Chains

\* The positions of sync...ForChain after a successful markAsRunning (the
\* sync body), and those of its catch.
BodyPcs ==
  {"getCurrentBlockNumber", "getOrderCreatedEvents", "findOneAndUpdate",
   "updateSync", "getContractMetrics", "contractMetricsSave"}
CatchPcs == {"catchGetBlock", "catchUpdateSync"}

\* Task t has passed the isRunning check of (kind, chain) k, has marked the
\* status as running and executes the sync body.
InBody(t, k) ==
  /\ task[t].pc \in BodyPcs
  /\ key(task[t]) = k

\* Task t is in sync...ForChain for k, past the isRunning check.
Executing(t, k) ==
  /\ task[t].pc \in BodyPcs \cup CatchPcs
  /\ key(task[t]) = k

\* Task t takes a step.
Steps(t) == task'[t] # task[t]

\* C1: for every (sync kind, chain) the persisted lastSyncBlock never
\* decreases, whatever invocations run and however they end.
C1_CursorNeverDecreases ==
  [][\A k \in AllKeys : status'[k].lastSyncBlock >= status[k].lastSyncBlock]_vars

\* C2: at most one invocation for a (sync kind, chain) is past the
\* isRunning check and in the sync body at a time.
C2_AtMostOneInBody ==
  \A k \in AllKeys : \A t, u \in Tasks :
    (InBody(t, k) /\ InBody(u, k)) => t = u

\* C6: once no invocation is executing the sync of a (sync kind, chain) any
\* more, its stored running flag is false again: every invocation that
\* set it has cleared it when it ended.
C6_RunningClearedAtEnd ==
  \A k \in AllKeys :
    status[k].isRunning => \E t \in Tasks : Executing(t, k)

\* C9: a multi-chain sync invocation that has got to its first chain ends
\* only after it has attempted every enabled chain.
C9_EveryChainAttempted ==
  \A t \in Tasks :
    (task[t].pc = "done" /\ task[t].job \in SyncTypes /\ task[t].ci >= 1)
      => task[t].ci > NumChains

\* ------------------------------------------------------------- C3, C4, C5
\* An Order document without its _id and timestamps, and without updatedAt.
Content(r) ==
  [chainId |-> r.chainId, orderId |-> r.orderId,
   txnHash |-> r.txnHash, blockNumber |-> r.blockNumber]
Stable(r) ==
  [id |-> r.id, chainId |-> r.chainId, orderId |-> r.orderId,
   txnHash |-> r.txnHash, blockNumber |-> r.blockNumber, createdAt |-> r.createdAt]

RecordsOf(S, e) == {r \in S : r.chainId = e.chainId /\ r.orderId = e.orderId}
Ingested(S, e) == \E r \in S : Content(r) = Content(e)

\* The blocks an order sync scans, and the batch a block belongs to.
Range(tk) == tk.fromBlock .. tk.currentBlock
BatchOf(tk, b) == tk.fromBlock + ((b - tk.fromBlock) \div batchSize) * batchSize

\* Task t upserts (without a database failure) an order that the store
\* already holds with the same content.
ReIngest(t) ==
  /\ task[t].pc = "findOneAndUpdate"
  /\ Steps(t)
  /\ faultsLeft' = faultsLeft
  /\ Ingested(orders, Head(task[t].queue))

\* Task t records its order sync of a chain as a success.
RunRecorded(t) ==
  /\ task[t].pc = "updateSync"
  /\ task[t].job = "orders"
  /\ Steps(t)
  /\ task'[t].pc \in {"getOrCreate", "done"}
  /\ task'[t].last = "success"

\* The order sync of task t has scanned a range whose events (at least one)
\* an earlier run had all ingested.
ReRun(t) ==
  LET logs == queryFilter(chainOf(task[t]), task[t].fromBlock, task[t].currentBlock)
  IN /\ logs # {}
     /\ \A e \in logs : \E r \in orders : Content(r) = Content(e) /\ r.createdAt < now

\* The status write of task t counts a success: one more than the count
\* the run loaded (which, unless another run has written since, is the
\* stored count), and no error.
Counted(t) ==
  LET k == key(task[t]) IN
  /\ status'[k].successCount = task[t].syncStatus.successCount + 1
  /\ status'[k].errorCount = status[k].errorCount
  /\ ~status'[k].isRunning

\* C3 (as stated): re-ingesting an order that is stored with the same
\* content creates no record, changes no record and counts no error.
C3_ReIngestChangesNothing ==
  [][\A t \in Tasks : ReIngest(t) =>
        /\ orders' = orders
        /\ nextId' = nextId
        /\ task'[t].lost = task[t].lost
        /\ task'[t].duplicates = task[t].duplicates]_vars

\* C3 (amended): re-ingesting an order that is stored with the same content
\* creates no record, changes no field of a record other than updatedAt and
\* counts no error; a run over a range whose events were all ingested
\* before is recorded as a success.
C3_ReIngestKeepsContent ==
  [][\A t \in Tasks :
        /\ ReIngest(t) =>
             /\ Cardinality(orders') = Cardinality(orders)
             /\ {Stable(r) : r \in orders'} = {Stable(r) : r \in orders}
             /\ nextId' = nextId
             /\ task'[t].lost = task[t].lost
             /\ task'[t].duplicates = task[t].duplicates
        /\ (RunRecorded(t) /\ ReRun(t)) => Counted(t)]_vars

\* A second run has upserted an order of an earlier run and is recorded as
\* a success.
C3_Witness ==
  \E t \in Tasks :
    /\ task[t].pc = "done" /\ task[t].job = "orders" /\ task[t].last = "success"
    /\ \E r \in orders : r.updatedAt = now /\ r.createdAt < now

\* Task t upserts an order and the store accepts it.
Upserted(t) ==
  /\ task[t].pc = "findOneAndUpdate"
  /\ Steps(t)
  /\ faultsLeft' = faultsLeft
  /\ task'[t].duplicates = task[t].duplicates

RECURSIVE scan(_, _, _)
scan(S, q, id) ==
  IF q = <<>> THEN S
  ELSE LET r == upsertOrder(S, Head(q), id, 0)
       IN scan(r.orders, Tail(q), IF r.inserted THEN id + 1 ELSE id)

singleScan(c, blocks) ==
  scan({}, InLogOrder({e \in Events : e.chainId = c /\ e.blockNumber \in blocks}), 1)

\* The order sync of task t has walked all its batches, none of which
\* failed or lost an order.
Scanned(t) ==
  /\ task[t].job = "orders"
  /\ task[t].pc = "updateSync"
  /\ task[t].failed = {}
  /\ task[t].lost = {}

\* C5: when two order syncs of a chain have both walked their ranges, and
\* no call has failed, the Order collection holds for the union of the
\* ranges what one sync scanning the union stores: the same orders, each
\* once.
C5_OverlapEqualsUnionScan ==
  \A t, u \in Tasks :
    (t < u /\ Scanned(t) /\ Scanned(u) /\ chainOf(task[t]) = chainOf(task[u])
       /\ faultsLeft = MaxOverlapFaults) =>
      LET blocks == Range(task[t]) \cup Range(task[u])
          mine == {r \in orders : r.chainId = chainOf(task[t]) /\ r.blockNumber \in blocks}
          one == singleScan(chainOf(task[t]), blocks)
      IN /\ {Content(r) : r \in mine} = {Content(r) : r \in one}
         /\ Cardinality(mine) = Cardinality(one)
         /\ \A r \in mine : RecordsOf(orders, r) = {r}

\* Two order syncs of Base have both walked overlapping ranges that hold
\* orders.
C5_Witness ==
  /\ Scanned(1) /\ Scanned(2)
  /\ faultsLeft = MaxOverlapFaults
  /\ Range(task[1]) \cap Range(task[2]) # {}
  /\ Cardinality(orders) >= 2
  /\ \E r \in orders : r.updatedAt > r.createdAt \/ task[1].currentBlock # task[2].currentBlock

\* ------------------------------------------------------------ C7, C8, C10
\* Task t loads a SyncStatus document that is marked as running.
Skips(t) ==
  /\ task[t].pc = "getOrCreate"
  /\ Steps(t)
  /\ faultsLeft' = faultsLeft
  /\ status[key(task[t])].exists
  /\ status[key(task[t])].isRunning

\* C7: a sync of a (sync kind, chain) that loads a status marked as running
\* returns at once: it has made no RPC call and no write, and the
\* SyncStatus, Order, ContractMetrics and TotalVolume stores are as they
\* were.
C7_SkipIsNoOp ==
  [][\A t \in Tasks : Skips(t) =>
        /\ UNCHANGED <<status, orders, nextId, metricsRows, snapshots, head>>
        /\ task'[t].last = "skipped"
        /\ ~task'[t].touched
        /\ task'[t].pc \in {"getOrCreate", "done"}]_vars

\* An invocation has been skipped on a status that is marked as running.
C7_Witness ==
  \E t \in Tasks :
    /\ task[t].pc = "done" /\ task[t].last = "skipped" /\ ~task[t].touched
    /\ status[<<task[t].job, 8453>>].isRunning

\* C8: when an order sync with a failed batch fetch records its run, the
\* run is counted as a success (successCount incremented, errorCount
\* unchanged), and every event of the other batches that the
\* run has read and the store has accepted has its Order record.
C8_PartialBatchResilience ==
  [][\A t \in Tasks : (RunRecorded(t) /\ task[t].failed # {}) =>
        /\ Counted(t)
        /\ \A e \in queryFilter(chainOf(task[t]), task[t].fromBlock, task[t].currentBlock) :
             (/\ BatchOf(task[t], e.blockNumber) \notin task[t].failed
              /\ e.orderId \notin task[t].lost \cup task[t].duplicates)
               => Ingested(orders, e)]_vars

\* A run whose first or second batch failed has upserted an order of
\* another batch and is recorded as a success.
C8_Witness ==
  \E t \in Tasks :
    /\ task[t].pc = "done" /\ task[t].job = "orders" /\ task[t].last = "success"
    /\ task[t].failed # {}
    /\ status[<<"orders", 8453>>].successCount >= 1
    /\ \E r \in orders :
         /\ r.updatedAt = now
         /\ r.blockNumber \in Range(task[t])
         /\ BatchOf(task[t], r.blockNumber) \notin task[t].failed

\* C10: the promise of an entry point never rejects: an invocation that has
\* ended has resolved, whatever call failed.
C10_EntryPointsNeverReject ==
  \A t \in Tasks :
    /\ task[t].result # "rejected"
    /\ task[t].pc = "done" => task[t].result = "resolved"

\* A sync...ForChain call has rejected (its failure status could not be
\* written) or a volume sync has failed, and the entry point has resolved.
C10_Witness ==
  \E t \in Tasks :
    /\ task[t].pc = "done" /\ task[t].result = "resolved"
    /\ task[t].last = "threw" /\ task[t].ci >= 1

\* ================================================= helpers under study
\* The sync jobs are idle while a helper is studied on its own.
JobsIdle ==
  /\ InitStores
  /\ rpcUrls = <<8453>>
  /\ faultsLeft = 0

jobVars == <<rpcUrls, initialized, head, status, orders, nextId, metricsRows,
             snapshots, runs, faultsLeft, task, dbVars, authVars>>

\* -------------------------------------------------------------------- C11
\* The order sync determines its starting block from any cursor and any
\* current block.
InitStart ==
  /\ JobsIdle
  /\ ServicesIdle
  /\ ConnectorIdle
  /\ \E l, c \in 0..MaxHeight :
       call = [fn |-> "startingBlock", lastSyncBlock |-> l, currentBlock |-> c,
               done |-> FALSE, fromBlock |-> 0]

determineStart ==
  /\ call.fn = "startingBlock"
  /\ ~call.done
  /\ call' = [call EXCEPT !.done = TRUE,
                          !.fromBlock = startingBlock(call.lastSyncBlock, call.currentBlock)]
  /\ UNCHANGED <<jobVars, connectorVars, serviceVars>>

NextStart == determineStart

SpecStart == InitStart /\ [][NextStart]_vars

\* C11: the starting block of an order sync is max(0, currentBlock -
\* lookback) when the cursor is 0 (current block minus the lookback from
\* the lookback on, block 0 below it) and the cursor itself when the
\* cursor is not 0.
C11_StartingBlock ==
  (call.fn = "startingBlock" /\ call.done) =>
    /\ call.lastSyncBlock # 0 => call.fromBlock = call.lastSyncBlock
    /\ (call.lastSyncBlock = 0 /\ call.currentBlock >= INITIAL_LOOKBACK)
          => call.fromBlock + INITIAL_LOOKBACK = call.currentBlock
    /\ (call.lastSyncBlock = 0 /\ call.currentBlock < INITIAL_LOOKBACK)
          => call.fromBlock = 0

\* A chain that was never synced and is at twice the lookback starts at the
\* lookback, not at block 0.
C11_Witness ==
  /\ call.fn = "startingBlock" /\ call.done
  /\ call.lastSyncBlock = 0
  /\ call.currentBlock = 2 * INITIAL_LOOKBACK
  /\ call.fromBlock = INITIAL_LOOKBACK

\* --------------------------------------------------------------- C12, C13
\* A call of priceService.fetchPrices(coinGeckoIds): `delivered` is
\* observation only, the last quote the API has delivered for each id.
NoResult == [id \in CoinIds |-> 0]

PriceCall(ids, pc) ==
  [fn |-> "fetchPrices", ids |-> ids, pc |-> pc, now |-> clock, wakeAt |-> clock,
   upstream |-> FALSE, raised |-> FALSE, returned |-> {}, result |-> NoResult,
   delivered |-> IF call.fn = "fetchPrices" THEN call.delivered ELSE NoResult]

\* The cached prices of the ids that have a cache entry.
cachedPrices(ids) ==
  [returned |-> {id \in ids : priceCache[id].exists},
   result   |-> [id \in CoinIds |->
                   IF id \in ids /\ priceCache[id].exists THEN priceCache[id].prices ELSE 0]]

\* A variant of the fallback that uses unexpired cache entries only.
unexpiredPrices(ids) ==
  [returned |-> {id \in ids : priceCache[id].exists
                                /\ clock - priceCache[id].timestamp < cacheExpiry},
   result   |-> [id \in CoinIds |->
                   IF id \in ids /\ priceCache[id].exists
                        /\ clock - priceCache[id].timestamp < cacheExpiry
                   THEN priceCache[id].prices ELSE 0]]

\* The fallback of the catch: the cached prices of the requested ids.
fallbackPrices(ids) == cachedPrices(ids)

\* A variant of the cache check: some id is cached and unexpired.
someCached(ids, at) ==
  \E id \in ids : priceCache[id].exists /\ at - priceCache[id].timestamp < cacheExpiry

\* uniqueIds.every(id => cached && (now - cached.timestamp) < cacheExpiry)
allCached(ids, at) ==
  \A id \in ids : priceCache[id].exists /\ at - priceCache[id].timestamp < cacheExpiry

InitPrice ==
  /\ JobsIdle
  /\ ServicesIdle
  /\ ConnectorIdle
  /\ call = [fn |-> "fetchPrices", ids |-> {}, pc |-> "done", now |-> StartTime,
             wakeAt |-> StartTime, upstream |-> FALSE, raised |-> FALSE,
             returned |-> {}, result |-> NoResult, delivered |-> NoResult]

\* Time passes.
tick ==
  /\ clock < StartTime + MaxTicks
  /\ clock' = clock + 1
  /\ UNCHANGED <<jobVars, connectorVars, call, priceCache, lastApiCall>>

\* fetchPrices up to its first await: no id, all ids cached and unexpired,
\* or the rate-limit wait before the request.
fetchPricesStart ==
  /\ call.pc = "done"
  /\ \E ids \in SUBSET CoinIds :
       LET c == PriceCall(ids, "done") IN
       call' =
         IF ids = {} THEN c
         ELSE IF allCached(ids, clock)
         THEN [c EXCEPT !.returned = cachedPrices(ids).returned,
                        !.result = cachedPrices(ids).result]
         ELSE [c EXCEPT !.pc = "request",
                        !.wakeAt = IF clock - lastApiCall < minTimeBetweenCalls
                                   THEN clock + (minTimeBetweenCalls - (clock - lastApiCall))
                                   ELSE clock]
  /\ UNCHANGED <<jobVars, connectorVars, serviceVars>>

\* After the wait: lastApiCall = Date.now(), then axios.get(...).
fetchPricesRequest ==
  /\ call.fn = "fetchPrices"
  /\ call.pc = "request"
  /\ clock >= call.wakeAt
  /\ lastApiCall' = clock
  /\ call' = [call EXCEPT !.pc = "response", !.upstream = TRUE]
  /\ UNCHANGED <<jobVars, connectorVars, clock, priceCache>>

\* The API answers with quotes for some of the ids: they are cached and the
\* response is returned.
fetchPricesResponse ==
  /\ call.fn = "fetchPrices"
  /\ call.pc = "response"
  /\ \E answered \in SUBSET call.ids : \E q \in Quotes :
       /\ priceCache' = [id \in CoinIds |->
             IF id \in answered THEN [exists |-> TRUE, prices |-> q, timestamp |-> clock]
             ELSE priceCache[id]]
       /\ call' = [call EXCEPT !.pc = "done", !.returned = answered,
                     !.result = [id \in CoinIds |-> IF id \in answered THEN q ELSE 0],
                     !.delivered = [id \in CoinIds |-> IF id \in answered THEN q ELSE @[id]]]
  /\ UNCHANGED <<jobVars, connectorVars, clock, lastApiCall>>

\* The request fails: the cached prices if there are any, else the error.
fetchPricesError ==
  /\ call.fn = "fetchPrices"
  /\ call.pc = "response"
  /\ LET f == fallbackPrices(call.ids) IN
     call' = IF f.returned # {}
             THEN [call EXCEPT !.pc = "done", !.returned = f.returned, !.result = f.result]
             ELSE [call EXCEPT !.pc = "done", !.raised = TRUE]
  /\ UNCHANGED <<jobVars, connectorVars, serviceVars>>

NextPrice ==
  \/ tick
  \/ fetchPricesStart
  \/ fetchPricesRequest
  \/ fetchPricesResponse
  \/ fetchPricesError

SpecPrice == InitPrice /\ [][NextPrice]_vars

\* C12: when the upstream request fails, fetchPrices returns for every
\* requested id that was ever delivered the quote delivered last (expired
\* or not) and does not raise; it raises only when no requested id has a
\* cached value.
C12_FallbackToCache ==
  [][fetchPricesError =>
       LET known == {id \in call.ids : call.delivered[id] # 0} IN
       /\ known # {} =>
            /\ ~call'.raised
            /\ call'.returned = known
            /\ \A id \in known : call'.result[id] = call.delivered[id]
       /\ call'.raised <=> known = {}]_vars

\* A failed request has been answered with a cached quote that had expired.
C12_Witness ==
  /\ call.fn = "fetchPrices" /\ call.pc = "done" /\ call.upstream /\ ~call.raised
  /\ \E id \in call.returned :
       /\ call.result[id] = priceCache[id].prices
       /\ priceCache[id].timestamp < call.now
       /\ call.now - priceCache[id].timestamp >= cacheExpiry

\* fetchPrices starts for a non-empty list of ids.
Starts ==
  /\ call.pc = "done"
  /\ call'.fn = "fetchPrices"
  /\ call'.ids # {}
  /\ call' # call

\* C13: fetchPrices answers from the cache, with no upstream request,
\* exactly when every requested id has a cache entry younger than the TTL;
\* otherwise it goes on to an upstream request, and a call that has ended
\* after going on has issued it.
C13_CacheHitIffAllFresh ==
  /\ [][Starts =>
         LET fresh == \A id \in call'.ids :
                        /\ priceCache[id].exists
                        /\ clock - priceCache[id].timestamp < cacheExpiry
         IN /\ fresh => /\ call'.pc = "done" /\ ~call'.upstream /\ ~call'.raised
                        /\ call'.returned = call'.ids
                        /\ \A id \in call'.ids : call'.result[id] = priceCache[id].prices
            /\ ~fresh => call'.pc = "request"]_vars
  /\ [][(call.pc = "request" /\ call'.pc # "request") => call'.upstream]_vars
  /\ []((call.fn = "fetchPrices" /\ call.pc = "response") => call.upstream)

\* A call for one fresh and one expired id was not answered from the cache:
\* it is on its way to the API.
C13_Witness ==
  /\ call.fn = "fetchPrices" /\ call.pc = "request"
  /\ \E id \in call.ids : priceCache[id].exists
                          /\ call.now - priceCache[id].timestamp >= cacheExpiry
  /\ \E id \in call.ids : priceCache[id].exists
                          /\ call.now - priceCache[id].timestamp < cacheExpiry

\* ------------------------------------------------ the volume aggregation
\* Strings are sequences of characters; a JavaScript number is a natural
\* number or NaN, which stands apart from the naturals.
NaN == 0 - 1

DigitValue ==
  ("0" :> 0) @@ ("1" :> 1) @@ ("2" :> 2) @@ ("3" :> 3) @@ ("4" :> 4) @@
  ("5" :> 5) @@ ("6" :> 6) @@ ("7" :> 7) @@ ("8" :> 8) @@ ("9" :> 9)

\* Number(string): the value of a string of digits (0 for the empty
\* string), NaN for a string with another character.  It never throws.
RECURSIVE Number(_)
Number(str) ==
  IF str = <<>> THEN 0
  ELSE LET head_ == Number(SubSeq(str, 1, Len(str) - 1))
           last_ == str[Len(str)]
       IN IF head_ = NaN \/ last_ \notin DOMAIN DigitValue THEN NaN
          ELSE 10 * head_ + DigitValue[last_]

RECURSIVE Pow10(_)
Pow10(n) == IF n = 0 THEN 1 ELSE 10 * Pow10(n - 1)

\* The arithmetic of numbers: NaN is contagious.
plus(a, b) == IF a = NaN \/ b = NaN THEN NaN ELSE a + b
times(a, b) == IF a = NaN \/ b = NaN THEN NaN ELSE a * b
divide(a, b) == IF a = NaN \/ b = NaN THEN NaN ELSE a \div b

\* The raw volumes a contract may report (multiples of 10^decimals) and a
\* malformed one.
Volumes == {<<"0">>, <<"1", "0">>, <<"a", "b", "c">>}
NgnPerUsd == 3
NoPrice == [exists |-> FALSE, usd |-> 0, ngn |-> 0]
PriceData == {NoPrice} \cup {[exists |-> TRUE, usd |-> u, ngn |-> u * NgnPerUsd] : u \in 0..2}

\* priceService.convertAmount(amount, decimals, priceData): null without a
\* price; the catch is never reached.
Null == [isNull |-> TRUE]

convertAmount(amount, decimals_, priceData) ==
  IF ~priceData.exists \/ priceData.usd = 0 \/ priceData.ngn = 0 THEN Null
  ELSE LET tokenAmount == divide(Number(amount), Pow10(decimals_)) IN
       [isNull |-> FALSE, tokenAmount |-> tokenAmount,
        usd |-> times(tokenAmount, priceData.usd),
        ngn |-> times(tokenAmount, priceData.ngn)]

\* A variant of the filter that lets every token through.
countsAll(id) == TRUE

\* The token is active and has volume: `token.isActive &&
\* token.totalVolume !== '0'`.
Counts(id) == tokens[id].isActive /\ tokens[id].totalVolume # <<"0">>

\* coinGeckoIds: the price-feed ids of the tokens that count.
coinGeckoIds(allTokens) ==
  {tokenCoin[allTokens[i]] : i \in {n \in 1..Len(allTokens) : Counts(allTokens[n])}}

\* The for loop over allTokens: the totals and the breakdown.
RECURSIVE calculate(_, _)
calculate(allTokens, prices) ==
  IF allTokens = <<>>
  THEN [totalUSD |-> 0, totalNGN |-> 0, tokenBreakdown |-> <<>>]
  ELSE LET sofar == calculate(SubSeq(allTokens, 1, Len(allTokens) - 1), prices)
           token == allTokens[Len(allTokens)]
           priceData == prices[tokenCoin[token]]
           converted == convertAmount(tokens[token].totalVolume, decimals, priceData)
       IN IF ~Counts(token) \/ ~priceData.exists \/ converted.isNull THEN sofar
          ELSE [totalUSD |-> plus(sofar.totalUSD, converted.usd),
                totalNGN |-> plus(sofar.totalNGN, converted.ngn),
                tokenBreakdown |-> Append(sofar.tokenBreakdown,
                   [chainId |-> tokenChain[token], token |-> token,
                    totalVolume |-> tokens[token].totalVolume,
                    volumeUSD |-> converted.usd, volumeNGN |-> converted.ngn,
                    priceUSD |-> priceData.usd, priceNGN |-> priceData.ngn])]

\* A variant of the cast that lets every value through.
castAny(val) == TRUE

\* Mongoose's cast of a Number path: NaN is a cast error.
castNumber(val) == val # NaN

\* The validation of a TotalVolume document by save().
validate(doc) ==
  /\ castNumber(doc.totalUSD)
  /\ castNumber(doc.totalNGN)
  /\ \A i \in 1..Len(doc.tokenBreakdown) :
       /\ castNumber(doc.tokenBreakdown[i].volumeUSD)
       /\ castNumber(doc.tokenBreakdown[i].volumeNGN)
       /\ castNumber(doc.tokenBreakdown[i].priceUSD)
       /\ castNumber(doc.tokenBreakdown[i].priceNGN)

\* getAllTokensWithDetails(chainId): the tokens of the chain whose details
\* could be read, in order.
getAllTokensWithDetails(chainId, okTokens) ==
  SelectSeq(<<1, 2, 3>>, LAMBDA id : tokenChain[id] = chainId /\ id \in okTokens)

\* getAllTokensAcrossChains(): the tokens of the chains that could be read.
RECURSIVE tokensAcrossChains(_, _, _)
tokensAcrossChains(chainIds, okChains, okTokens) ==
  IF chainIds = <<>> THEN <<>>
  ELSE (IF Head(chainIds) \in okChains
        THEN getAllTokensWithDetails(Head(chainIds), okTokens) ELSE <<>>)
       \o tokensAcrossChains(Tail(chainIds), okChains, okTokens)

\* Every token of every enabled chain.
EveryToken == tokensAcrossChains(getEnabledChainIds, Chains, TokenIds)

\* The handlers that reach the TotalVolume collection: the aggregator and
\* the routes of /api/volume; the other read endpoints of the API.
VolumeCallers == {"syncTotalVolume", "/total", "/chart", "/latest", "/by-chain"}
OtherReads == {"/api/orders", "/api/stats", "/api/order-analytics", "/api/admin/system/status"}

\* The interval of GET /chart (3, 12 or 24 hours), in clock ticks.
chartInterval == 1

\* A variant of the history query that finds nothing.
noHistory(startTime) == <<>>

\* TotalVolume.getHistory(startTime): the snapshots since startTime.
getHistory(startTime) ==
  SelectSeq(snapshots, LAMBDA snap : snap.timestamp >= startTime /\ snap.timestamp <= clock)

IdleVolume ==
  [fn |-> "volume", caller |-> "none", pc |-> "done", response |-> 0,
   allTokens |-> <<>>, doc |-> calculate(<<>>, [id \in CoinIds |-> NoPrice])]

InitVolume ==
  /\ InitStores
  /\ rpcUrls = <<8453, 1135>>
  /\ faultsLeft = 0
  /\ ServicesIdle
  /\ lastRpcCall = 0
  /\ rpcLog = <<>>
  /\ tokens \in [TokenIds -> [totalVolume : Volumes, isActive : {TRUE}]]
  /\ call = IdleVolume

volumeFrame ==
  UNCHANGED <<rpcUrls, initialized, head, status, orders, nextId, metricsRows,
              runs, faultsLeft, task, serviceVars, connectorVars, dbVars,
              authVars>>

\* The handler ends: the aggregator's catch logs, a route answers.
volumeDone(status_) == [call EXCEPT !.pc = "done", !.response = status_]

\* A token is delisted.
setInactive ==
  /\ call.caller = "none"
  /\ \E id \in TokenIds :
       /\ tokens[id].isActive
       /\ \A other \in TokenIds : tokens[other].isActive
       /\ tokens' = [tokens EXCEPT ![id].isActive = FALSE]
  /\ UNCHANGED <<jobVars, call, serviceVars, lastRpcCall, rpcLog>>

\* The synchronous head of syncTotalVolume, GET /total and GET /chart.
volumeStart ==
  /\ call.pc = "done"
  /\ \E caller \in {"syncTotalVolume", "/total", "/chart"} :
       /\ caller = "/chart" \/ Len(snapshots) < MaxSnapshots
       /\ LET c == [IdleVolume EXCEPT !.caller = caller] IN
          call' =
            IF caller # "/chart" /\ ~initialized
            THEN [c EXCEPT !.response = IF caller = "/total" THEN 503 ELSE 0]
            ELSE [c EXCEPT !.pc = IF caller = "/chart" THEN "getHistory" ELSE "getAllTokens"]
  /\ UNCHANGED snapshots
  /\ volumeFrame

\* GET /chart: the history, and the current volume when there is none.
volumeChartHistory ==
  /\ call.fn = "volume"
  /\ call.pc = "getHistory"
  /\ call' = IF getHistory(clock - chartInterval) = <<>>
             THEN IF initialized THEN [call EXCEPT !.pc = "getAllTokens"] ELSE volumeDone(500)
             ELSE volumeDone(200)
  /\ UNCHANGED snapshots
  /\ volumeFrame

\* getAllTokensAcrossChains() with the chains and tokens that fail
\* skipped, then the ids for the price fetch.
volumeGetTokens ==
  /\ call.fn = "volume"
  /\ call.pc = "getAllTokens"
  /\ \E okChains \in SUBSET Chains, okTokens \in SUBSET TokenIds :
       LET allTokens == tokensAcrossChains(getEnabledChainIds, okChains, okTokens) IN
       call' =
         IF allTokens = <<>>
         THEN volumeDone(IF call.caller = "syncTotalVolume" THEN 0 ELSE 500)
         ELSE IF call.caller = "syncTotalVolume" /\ coinGeckoIds(allTokens) = {}
         THEN volumeDone(0)
         ELSE [call EXCEPT !.pc = "fetchPrices", !.allTokens = allTokens]
  /\ UNCHANGED snapshots
  /\ volumeFrame

\* fetchPrices(coinGeckoIds) raises or returns prices for some of the ids;
\* then the loop.
volumeGetPrices ==
  /\ call.fn = "volume"
  /\ call.pc = "fetchPrices"
  /\ \/ /\ coinGeckoIds(call.allTokens) # {}
        /\ call' = volumeDone(IF call.caller = "syncTotalVolume" THEN 0 ELSE 500)
     \/ \E prices \in [CoinIds -> PriceData] :
          /\ \A id \in CoinIds \ coinGeckoIds(call.allTokens) : prices[id] = NoPrice
          /\ call' = [call EXCEPT !.pc = "save", !.doc = calculate(call.allTokens, prices)]
  /\ UNCHANGED snapshots
  /\ volumeFrame

\* new TotalVolume(...).save(): `source` is observation only, the tokens
\* the snapshot was computed from.
totalVolumeSave ==
  /\ call.fn = "volume"
  /\ call.pc = "save"
  /\ \/ /\ call' = volumeDone(IF call.caller = "syncTotalVolume" THEN 0 ELSE 500)
        /\ UNCHANGED snapshots
     \/ /\ validate(call.doc)
        /\ snapshots' = Append(snapshots,
             [totalVolumeUSD |-> call.doc.totalUSD, totalVolumeNGN |-> call.doc.totalNGN,
              tokenBreakdown |-> call.doc.tokenBreakdown, timestamp |-> clock,
              source |-> call.allTokens])
        /\ call' = volumeDone(IF call.caller = "syncTotalVolume" THEN 0 ELSE 200)
  /\ volumeFrame

\* GET /latest and GET /by-chain: TotalVolume.getLatest().
volumeGetLatest ==
  /\ call.pc = "done"
  /\ \E caller \in {"/latest", "/by-chain"} :
       call' = [IdleVolume EXCEPT !.caller = caller,
                  !.response = IF snapshots = <<>> THEN 404 ELSE 200]
  /\ UNCHANGED snapshots
  /\ volumeFrame

\* The other read endpoints: find, aggregate and countDocuments only.
readEndpoint ==
  /\ call.pc = "done"
  /\ \E caller \in OtherReads :
       call' = [IdleVolume EXCEPT !.caller = caller, !.response = 200]
  /\ UNCHANGED snapshots
  /\ volumeFrame

NextVolume ==
  \/ initialize
  \/ setInactive
  \/ volumeStart
  \/ volumeChartHistory
  \/ volumeGetTokens
  \/ volumeGetPrices
  \/ totalVolumeSave
  \/ volumeGetLatest
  \/ readEndpoint

SpecVolume == InitVolume /\ [][NextVolume]_vars

\* ---------------------------------------------------------- C14 .. C17
Snapshots == {snapshots[i] : i \in 1..Len(snapshots)}

\* The sum of a field over the breakdown entries, in their order.
RECURSIVE Sum(_, _)
Sum(breakdown, field) ==
  IF breakdown = <<>> THEN 0
  ELSE plus(Sum(SubSeq(breakdown, 1, Len(breakdown) - 1), field),
            breakdown[Len(breakdown)][field])

Same(a, b) == a # NaN /\ b # NaN /\ a = b

\* C15: in every persisted snapshot the volumeUSD of the breakdown entries
\* sum to totalVolumeUSD and the volumeNGN to totalVolumeNGN.
C15_BreakdownSumsToTotals ==
  \A snap \in Snapshots :
    /\ Same(Sum(snap.tokenBreakdown, "volumeUSD"), snap.totalVolumeUSD)
    /\ Same(Sum(snap.tokenBreakdown, "volumeNGN"), snap.totalVolumeNGN)

\* A snapshot with two breakdown entries of different value is persisted.
C15_Witness ==
  \E snap \in Snapshots :
    /\ Len(snap.tokenBreakdown) >= 2
    /\ snap.tokenBreakdown[1].volumeUSD # snap.tokenBreakdown[2].volumeUSD
    /\ snap.totalVolumeUSD > snap.tokenBreakdown[1].volumeUSD
    /\ snap.totalVolumeNGN > snap.tokenBreakdown[2].volumeNGN

\* The raw volume of the token is not a number.
Malformed(id) == Number(tokens[id].totalVolume) = NaN

ReadEndpoints == (VolumeCallers \ {"syncTotalVolume"}) \cup OtherReads

minTimeBetweenRpcCalls == 2

\* The jobs that use the connector at the same time (forceSyncAll starts
\* them with Promise.all; the cron ticks may overlap as well).
Callers == {"syncContractMetrics", "syncOrderHistory"}

\* The connector's methods: whether they await applyRpcRateLimit() and the
\* RPC calls they start after it.
RpcMethods ==
  [getContractMetrics    |-> [limited |-> TRUE,  calls |-> 4],
   getCurrentBlockNumber |-> [limited |-> TRUE,  calls |-> 1],
   getBlockTimestamp     |-> [limited |-> FALSE, calls |-> 1]]

IdleCaller == [pc |-> "idle", method |-> "none", wakeAt |-> 0]

InitRate ==
  /\ JobsIdle
  /\ ServicesIdle
  /\ ConnectorIdle
  /\ call = [fn |-> "rpc", callers |-> [c \in Callers |-> IdleCaller]]

\* The RPC calls of a method start now.
startCalls(c, method) ==
  /\ rpcLog' = rpcLog \o [i \in 1..RpcMethods[method].calls |-> clock]
  /\ call' = [call EXCEPT !.callers[c] = IdleCaller]

\* Time passes.
rpcTick ==
  /\ clock < StartTime + MaxTicks
  /\ clock' = clock + 1
  /\ UNCHANGED <<jobVars, call, priceCache, lastApiCall, connectorVars>>

\* A job calls a method of the connector: applyRpcRateLimit() up to its
\* await, or to its end when there is nothing to wait for.
rpcMethod(c) ==
  /\ call.callers[c].pc = "idle"
  /\ \E method \in DOMAIN RpcMethods :
       /\ Len(rpcLog) + RpcMethods[method].calls <= MaxRpcCalls
       /\ IF RpcMethods[method].limited /\ clock - lastRpcCall < minTimeBetweenRpcCalls
          THEN /\ call' = [call EXCEPT !.callers[c] =
                     [pc |-> "waiting", method |-> method,
                      wakeAt |-> clock + (minTimeBetweenRpcCalls - (clock - lastRpcCall))]]
               /\ UNCHANGED <<lastRpcCall, rpcLog>>
          ELSE /\ lastRpcCall' = IF RpcMethods[method].limited THEN clock ELSE lastRpcCall
               /\ startCalls(c, method)
  /\ UNCHANGED <<jobVars, serviceVars, tokens>>

\* The timer of applyRpcRateLimit() fires: lastRpcCall = Date.now(), then
\* the calls.
rpcWake(c) ==
  /\ call.callers[c].pc = "waiting"
  /\ clock >= call.callers[c].wakeAt
  /\ lastRpcCall' = clock
  /\ startCalls(c, call.callers[c].method)
  /\ UNCHANGED <<jobVars, serviceVars, tokens>>

NextRate == rpcTick \/ \E c \in Callers : rpcMethod(c) \/ rpcWake(c)

SpecRate == InitRate /\ [][NextRate]_vars

\* C18: any two RPC calls of the process start at least the cooldown
\* apart.
C18_CallsSpacedByCooldown ==
  \A i, j \in 1..Len(rpcLog) :
    i < j => rpcLog[j] - rpcLog[i] >= minTimeBetweenRpcCalls

\* ------------------------------------------- the log queries of a range
\* The queryFilter calls of getOrderCreatedEvents(chainId, fromBlock,
\* toBlock), each a pair <<start, end>>.
logQueries(from, to) ==
  IF to - from > batchSize
  THEN {<<s, Min(s + batchSize - 1, to)>> : s \in SubBatches(from, to)}
  ELSE {<<from, to>>}

InitQueries ==
  /\ JobsIdle
  /\ ServicesIdle
  /\ ConnectorIdle
  /\ \E from, to \in 0..MaxHeight :
       /\ from <= to
       /\ call = [fn |-> "getOrderCreatedEvents", fromBlock |-> from, toBlock |-> to,
                  done |-> FALSE, queries |-> {}]

issueQueries ==
  /\ call.fn = "getOrderCreatedEvents"
  /\ ~call.done
  /\ call' = [call EXCEPT !.done = TRUE, !.queries = logQueries(call.fromBlock, call.toBlock)]
  /\ UNCHANGED <<jobVars, serviceVars, connectorVars>>

NextQueries == issueQueries

SpecQueries == InitQueries /\ [][NextQueries]_vars

\* C19: no log query spans more than batchSize blocks, and the queries of
\* a range of more than batchSize blocks cover each of its blocks exactly
\* once.
C19_QueriesWithinBatchSize ==
  (call.fn = "getOrderCreatedEvents" /\ call.done) =>
     /\ \A q \in call.queries : q[2] - q[1] + 1 <= batchSize
     /\ \A b \in call.fromBlock..call.toBlock :
          Cardinality({q \in call.queries : q[1] <= b /\ b <= q[2]}) = 1

\* ----------------------------------------------------------- timeUtils
\* Durations are counted in seconds (1000 ms each), strings are sequences
\* of characters.
HOUR == 60 * 60
DAY == 24 * HOUR

\* The own properties of TIME_PERIODS.
TIME_PERIODS ==
  (<<"1", "2", "h">> :> 12 * HOUR) @@ (<<"2", "4", "h">> :> 24 * HOUR) @@
  (<<"d", "a", "y">> :> DAY) @@
  (<<"m", "o", "n", "t", "h">> :> 30 * DAY) @@
  (<<"y", "e", "a", "r">> :> 365 * DAY)

\* The properties every object literal inherits from Object.prototype.
ObjectPrototype ==
  {<<"c", "o", "n", "s", "t", "r", "u", "c", "t", "o", "r">>,
   <<"t", "o", "S", "t", "r", "i", "n", "g">>,
   <<"v", "a", "l", "u", "e", "O", "f">>,
   <<"_", "_", "p", "r", "o", "t", "o", "_", "_">>}

units == ("h" :> HOUR) @@ ("d" :> DAY) @@ ("w" :> 7 * DAY) @@ ("m" :> 30 * DAY)

\* The values parseTimeRange returns: a number, null, or what a property
\* of Object.prototype holds (a function or an object, truthy).
num(n) == [kind |-> "number", value |-> n]
null == [kind |-> "null", value |-> 0]
inherited == [kind |-> "object", value |-> 0]

\* TIME_PERIODS[range]: an own property, else an inherited one, else
\* undefined.
lookup(range) ==
  IF range \in DOMAIN TIME_PERIODS THEN num(TIME_PERIODS[range])
  ELSE IF range \in ObjectPrototype THEN inherited
  ELSE null

\* range.match(/^(\d+)([hdwm])$/)
match(range) ==
  /\ Len(range) >= 2
  /\ range[Len(range)] \in DOMAIN units
  /\ \A i \in 1..(Len(range) - 1) : range[i] \in DOMAIN DigitValue

truthy(v) == v.kind = "object" \/ (v.kind = "number" /\ v.value # 0)

parseTimeRange(range) ==
  IF truthy(lookup(range)) THEN lookup(range)
  ELSE IF ~match(range) THEN null
  ELSE num(Number(SubSeq(range, 1, Len(range) - 1)) * units[range[Len(range)]])

\* isValidTimeRange(range), on which the routes answer 400.
isValidTimeRange(range) == parseTimeRange(range) # null

\* getStartTime(range): null for a falsy parseTimeRange(range), else
\* new Date(Date.now() - timeRange); the date is carried as its distance from
\* Date.now(), and is the Invalid Date when timeRange is not a number.
getStartTime(range) ==
  LET timeRange == parseTimeRange(range) IN
  IF ~truthy(timeRange) THEN null
  ELSE IF timeRange.kind = "number" THEN [kind |-> "date", value |-> 0 - timeRange.value]
  ELSE [kind |-> "invalidDate", value |-> 0]

\* The strings of 1 to MaxDigits digits, and the range strings tried.
Amounts == UNION {[1..n -> DOMAIN DigitValue] : n \in 1..MaxDigits}
Ranges ==
  DOMAIN TIME_PERIODS \cup ObjectPrototype
    \cup {amount \o <<unit>> : amount \in Amounts, unit \in DOMAIN units \cup {"x"}}
    \cup {<<"a", "b", "c">>, <<>>, <<"h">>, <<"7">>,
          <<"d", "7">>, <<"7", "d", "d">>, <<"7", " ", "d">>}

InitTime ==
  /\ JobsIdle
  /\ ServicesIdle
  /\ ConnectorIdle
  /\ \E range \in Ranges :
       call = [fn |-> "parseTimeRange", range |-> range, done |-> FALSE,
               result |-> null, valid |-> FALSE, start |-> null]

parse ==
  /\ call.fn = "parseTimeRange"
  /\ ~call.done
  /\ call' = [call EXCEPT !.done = TRUE, !.result = parseTimeRange(call.range),
                          !.valid = isValidTimeRange(call.range),
                          !.start = getStartTime(call.range)]
  /\ UNCHANGED <<jobVars, serviceVars, connectorVars>>

NextTime == parse

SpecTime == InitTime /\ [][NextTime]_vars

\* The range is an amount in digits followed by the unit.
HasForm(range, unit) ==
  \E amount \in Amounts : range = amount \o <<unit>>

\* C20: "24h" is 86,400 s, "7d" 604,800 s, "2w" 1,209,600 s; a string of
\* digits n and a unit is n times the unit; a string that is neither a
\* named period nor of that form is rejected.
C20_ParseTimeRange ==
  (call.fn = "parseTimeRange" /\ call.done) =>
     /\ call.range = <<"2", "4", "h">> => call.result = num(86400)
     /\ call.range = <<"7", "d">> => call.result = num(604800)
     /\ call.range = <<"2", "w">> => call.result = num(1209600)
     /\ \A unit \in {"h", "d", "w", "m"} :
          (HasForm(call.range, unit) /\ call.range \notin {<<"1", "2", "h">>, <<"2", "4", "h">>}) =>
            \E n \in 0..(Pow10(MaxDigits) - 1) :
              /\ call.result = num(n * (CASE unit = "h" -> 3600 [] unit = "d" -> 86400
                                          [] unit = "w" -> 604800 [] unit = "m" -> 2592000))
              /\ Number(SubSeq(call.range, 1, Len(call.range) - 1)) = n
     /\ (call.range \notin {<<"1", "2", "h">>, <<"2", "4", "h">>, <<"d", "a", "y">>,
                            <<"m", "o", "n", "t", "h">>, <<"y", "e", "a", "r">>}
         /\ \A unit \in {"h", "d", "w", "m"} : ~HasForm(call.range, unit)) =>
            /\ call.result = null
            /\ ~call.valid

\* ------------------------------------- startup and the index migration
StatusKeys == SyncTypes \X Chains

\* The documents the unique indexes in place allow: syncType_1 one
\* document per syncType, syncType_1_chainId_1 one per (syncType, chainId).
Allowed(idx, count) ==
  /\ "syncType_1" \in idx =>
       \A ty \in SyncTypes : \A c, d \in Chains :
          /\ count[<<ty, c>>] <= 1
          /\ c # d => count[<<ty, c>>] + count[<<ty, d>>] <= 1
  /\ "syncType_1_chainId_1" \in idx => \A k \in StatusKeys : count[k] <= 1

\* The groups the aggregate of the migration finds: count > 1.
duplicates == {k \in StatusKeys : docCount[k] > 1}

IdleMigration ==
  [fn |-> "fixSyncStatusIndex", pc |-> "exited", starts |-> 0, mode |-> "none",
   existingConnection |-> FALSE, shouldCloseConnection |-> FALSE,
   oldIndexExists |-> FALSE, result |-> "none",
   \* observation only: the indexes and documents when the run began
   before |-> <<{}, [k \in StatusKeys |-> 0]>>]

InitMigration ==
  /\ initialized = FALSE
  /\ head = [c \in Chains |-> 0]
  /\ status = [k \in StatusKeys |-> NoStatus]
  /\ orders = {}
  /\ nextId = 1
  /\ metricsRows = [c \in Chains |-> 0]
  /\ snapshots = <<>>
  /\ runs = 0
  /\ task = [t \in Tasks |-> IdleTask]
  /\ rpcUrls = <<8453, 1135>>
  /\ faultsLeft = 0
  /\ ServicesIdle
  /\ ConnectorIdle
  /\ readyState = 0
  /\ AuthIdle
  /\ indexes \in {{"_id_"} \cup idx : idx \in SUBSET {"syncType_1", "syncType_1_chainId_1"}}
  /\ docCount \in [StatusKeys -> 0..MaxDocs]
  /\ Allowed(indexes, docCount)
  /\ call = IdleMigration

migrationFrame ==
  UNCHANGED <<rpcUrls, head, status, orders, nextId, metricsRows, snapshots,
              runs, faultsLeft, task, serviceVars, connectorVars, authVars>>

\* server.js starts: mongoose.connect(...), then runMigration() with no
\* argument.  Or the script is run by hand, not connected.
startProcess ==
  /\ call.pc = "exited"
  /\ call.starts < MaxStarts
  /\ \E mode \in {"server", "script"} :
       /\ readyState' = IF mode = "server" THEN 1 ELSE 0
       /\ call' = [IdleMigration EXCEPT !.pc = "connect", !.mode = mode,
                     !.starts = call.starts + 1, !.before = <<indexes, docCount>>]
  /\ initialized' = FALSE
  /\ UNCHANGED <<indexes, docCount>>
  /\ migrationFrame

\* fixSyncStatusIndex(existingConnection = null): without a connection
\* argument it connects (a no-op on an open connection) and will close.
\* Neither caller passes a connection.
migrationConnect ==
  /\ call.pc = "connect"
  /\ IF ~call.existingConnection \/ readyState # 1
     THEN /\ readyState' = 1
          /\ call' = [call EXCEPT !.pc = "indexes", !.shouldCloseConnection = TRUE]
     ELSE /\ UNCHANGED readyState
          /\ call' = [call EXCEPT !.pc = "indexes"]
  /\ UNCHANGED <<initialized, indexes, docCount>>
  /\ migrationFrame

\* collection.indexes(): is the old index there?
migrationIndexes ==
  /\ call.pc = "indexes"
  /\ call' = [call EXCEPT !.oldIndexExists = "syncType_1" \in indexes,
                          !.pc = IF "syncType_1" \in indexes THEN "dropIndex" ELSE "createIndex"]
  /\ UNCHANGED <<initialized, dbVars>>
  /\ migrationFrame

\* collection.dropIndex('syncType_1')
migrationDropIndex ==
  /\ call.pc = "dropIndex"
  /\ indexes' = indexes \ {"syncType_1"}
  /\ call' = [call EXCEPT !.pc = "createIndex"]
  /\ UNCHANGED <<initialized, docCount, readyState>>
  /\ migrationFrame

\* collection.createIndex({syncType: 1, chainId: 1}, {unique: true}): a
\* no-op when the index exists; with duplicate documents the build fails
\* with code 11000, which the inner catch rethrows and the outer catch
\* turns into `return false`.
migrationCreateIndex ==
  /\ call.pc = "createIndex"
  /\ IF "syncType_1_chainId_1" \notin indexes /\ duplicates # {}
     THEN /\ call' = [call EXCEPT !.pc = "finally", !.result = "false"]
          /\ UNCHANGED indexes
     ELSE /\ indexes' = indexes \cup {"syncType_1_chainId_1"}
          /\ call' = [call EXCEPT !.pc = "aggregate"]
  /\ UNCHANGED <<initialized, docCount, readyState>>
  /\ migrationFrame

\* The aggregate of the duplicate groups, and deleteMany for each of them:
\* the first document is kept.
migrationDeleteMany ==
  /\ call.pc = "aggregate"
  /\ IF duplicates = {}
     THEN /\ call' = [call EXCEPT !.pc = "finally", !.result = "true"]
          /\ UNCHANGED docCount
     ELSE /\ \E k \in duplicates : docCount' = [docCount EXCEPT ![k] = 1]
          /\ UNCHANGED call
  /\ UNCHANGED <<initialized, indexes, readyState>>
  /\ migrationFrame

\* finally: mongoose.connection.close() if the migration connected.
migrationFinally ==
  /\ call.pc = "finally"
  /\ readyState' = IF call.shouldCloseConnection /\ readyState = 1 THEN 0 ELSE readyState
  /\ call' = [call EXCEPT !.pc = IF call.mode = "server" THEN "initialize" ELSE "exited"]
  /\ UNCHANGED <<initialized, indexes, docCount>>
  /\ migrationFrame

\* server.js after the migration: contractService.initialize(); the jobs
\* are scheduled.  Later the process stops.
serverInitialize ==
  /\ call.pc = "initialize"
  /\ initialized' = TRUE
  /\ call' = [call EXCEPT !.pc = "serving"]
  /\ UNCHANGED dbVars
  /\ migrationFrame

stopProcess ==
  /\ call.pc = "serving"
  /\ call' = [call EXCEPT !.pc = "exited"]
  /\ initialized' = FALSE
  /\ readyState' = 0
  /\ UNCHANGED <<indexes, docCount>>
  /\ migrationFrame

NextMigration ==
  \/ startProcess
  \/ migrationConnect
  \/ migrationIndexes
  \/ migrationDropIndex
  \/ migrationCreateIndex
  \/ migrationDeleteMany
  \/ migrationFinally
  \/ serverInitialize
  \/ stopProcess

SpecMigration == InitMigration /\ [][NextMigration]_vars

\* A run of the migration has ended.
MigrationEnded == call.pc \in {"initialize", "serving", "exited"} /\ call.starts > 0

\* C21: when a run of the migration has ended the unique compound index
\* is in place and no (syncType, chainId) has two documents, and a second
\* run has changed nothing.
C21_MigrationIdempotent ==
  MigrationEnded =>
     /\ "syncType_1_chainId_1" \in indexes
     /\ \A k \in StatusKeys : docCount[k] <= 1
     /\ call.starts = 2 => call.before = <<indexes, docCount>>

\* C28: once the startup sequence has initialized the contract service,
\* the database connection of the process is open.
C28_ConnectedAfterStartup ==
  (call.fn = "fixSyncStatusIndex" /\ call.pc = "serving") => readyState = 1

\* -------------------------------------------------------------------- C22
\* C22 as stated: a metrics sync that has ended has created exactly one
\* ContractMetrics record for every enabled chain.
C22_OneRecordPerChainPerTick ==
  \A t \in Tasks :
    (task[t].job = "metrics" /\ task[t].pc = "done" /\ initialized) =>
       \A i \in 1..NumChains : task[t].created[getEnabledChainIds[i]] = 1

\* C22, amended: records are only inserted, one at a time, by the save of
\* a metrics sync; a metrics sync creates at most one record per chain,
\* and has created one for every chain it records as a success.
C22_InsertOnly ==
  /\ [][\A c \in Chains :
          /\ metricsRows'[c] # metricsRows[c] =>
               /\ metricsRows'[c] = metricsRows[c] + 1
               /\ \E t \in Tasks : /\ task[t].job = "metrics"
                                   /\ task[t].pc = "contractMetricsSave"
                                   /\ chainOf(task[t]) = c
                                   /\ task'[t].created[c] = 1
          /\ \A t \in Tasks :
               (task[t].pc = "contractMetricsSave" /\ task'[t].pc = "getCurrentBlockNumber"
                  /\ chainOf(task[t]) = c) => metricsRows'[c] = metricsRows[c] + 1
          /\ status'[<<"metrics", c>>].successCount > status[<<"metrics", c>>].successCount =>
               \E t \in Tasks : task[t].job = "metrics" /\ task[t].created[c] = 1]_vars
  /\ [](\A t \in Tasks : \A c \in Chains : task[t].created[c] <= 1)

\* The second metrics sync has created its record for every chain, next
\* to the records of the first.
C22_Witness ==
  \E t \in Tasks :
    /\ task[t].job = "metrics" /\ task[t].pc = "done"
    /\ \A i \in 1..NumChains :
         LET c == getEnabledChainIds[i] IN
         /\ task[t].created[c] = 1
         /\ metricsRows[c] = 2
         /\ status[<<"metrics", c>>].successCount = 2

\* -------------------------------------------------------------------- C23
\* The blocks of the batches 1..n requested so far.
Covered(tk, n) ==
  UNION {tk.requested[i][1]..tk.requested[i][2] : i \in 1..n}

\* C23: the batches an order sync of a chain requests are in strictly
\* increasing block order, pairwise disjoint and of at most batchSize
\* blocks each; when the loop is over they cover every block of
\* [fromBlock, currentBlock], each exactly once.
C23_BatchesPartitionRange ==
  \A t \in Tasks :
    LET tk == task[t] n == Len(tk.requested) IN
    (tk.job = "orders" /\ tk.pc \in {"getOrderCreatedEvents", "findOneAndUpdate", "updateSync"}) =>
       /\ \A i \in 1..n :
            /\ tk.requested[i][1] <= tk.requested[i][2]
            /\ tk.requested[i][2] - tk.requested[i][1] + 1 <= batchSize
            /\ i < n => tk.requested[i][2] < tk.requested[i + 1][1]
       /\ tk.pc = "updateSync" =>
            /\ Covered(tk, n) = tk.fromBlock..tk.currentBlock
            /\ \A b \in tk.fromBlock..tk.currentBlock :
                 Cardinality({i \in 1..n : tk.requested[i][1] <= b /\ b <= tk.requested[i][2]}) = 1

\* An order sync has walked a range in two batches, the second shorter.
C23_Witness ==
  \E t \in Tasks :
    LET tk == task[t] IN
    /\ tk.job = "orders" /\ tk.pc = "updateSync"
    /\ Len(tk.requested) = 2
    /\ tk.requested[1][2] - tk.requested[1][1] + 1 = batchSize
    /\ tk.requested[2][2] = tk.currentBlock
    /\ tk.requested[2][1] = tk.requested[2][2]

\* -------------------------------------------------------------------- C24
\* C24: the stored order cursor of a chain is advanced to block N only by
\* a step of a run that has requested events for every block from its start
\* block up to N; a run that has requested no batch leaves it unchanged.
C24_CursorOnlyOverRequested ==
  [][\A c \in Chains :
       LET k == <<"orders", c>> IN
       status'[k].lastSyncBlock > status[k].lastSyncBlock =>
         \E t \in Tasks :
           LET tk == task[t] IN
           /\ Steps(t) /\ key(tk) = k
           /\ Len(tk.requested) > 0
           /\ Covered(tk, Len(tk.requested)) = tk.fromBlock..status'[k].lastSyncBlock]_vars

\* -------------------------------------------------------------------- C25
\* The step with which task t ends its sync of (kind, chain) k, having
\* passed the isRunning check.
Ends(t, k) ==
  /\ Executing(t, k)
  /\ Steps(t)
  /\ ~(task'[t].pc \in BodyPcs \cup CatchPcs /\ key(task'[t]) = k)

\* C25: an invocation that is not skipped increments exactly one of
\* successCount and errorCount of its (kind, chain), by exactly one, and
\* leaves an error message exactly when it counted an error; no other step
\* changes the counters.
C25_ExactlyOneCount ==
  [][\A k \in AllKeys :
       LET s == status[k] s2 == status'[k] IN
       IF \E t \in Tasks : Ends(t, k)
       THEN \/ /\ s2.successCount = s.successCount + 1
               /\ s2.errorCount = s.errorCount
               /\ s2.lastError = "null"
            \/ /\ s2.successCount = s.successCount
               /\ s2.errorCount = s.errorCount + 1
               /\ s2.lastError # "null"
       ELSE /\ s2.successCount = s.successCount
            /\ s2.errorCount = s.errorCount]_vars

\* -------------------------------------------------------------------- C26
\* Task t records its order sync of a chain as a success.
RecordsSuccess(t) ==
  /\ task[t].job = "orders"
  /\ task[t].pc = "updateSync"
  /\ Steps(t)
  /\ task'[t].pc \notin CatchPcs

\* C26: when an order sync is recorded as a success and none of its batches
\* failed, every OrderCreated event of the chain in the scanned range
\* [fromBlock, currentBlock] has an Order record with its (chainId, orderId).
C26_EveryEventHasOrder ==
  [][\A t \in Tasks :
       (RecordsSuccess(t) /\ task[t].failed = {}) =>
         \A e \in queryFilter(chainOf(task[t]), task[t].fromBlock, task[t].currentBlock) :
           RecordsOf(orders', e) # {}]_vars

\* -------------------------------------------------------------------- C27
\* The process stops (a deploy, a crash) and is started again: server.js
\* connects, runs the migration and calls contractService.initialize().  The
\* invocations in flight are gone with the process, the collections stay as
\* they are: nothing at start-up touches isRunning.  A stop counts as one of
\* the failures of a behaviour.
restart ==
  /\ initialized
  /\ Fault
  /\ initialized' = FALSE
  /\ task' = [t \in Tasks |-> IdleTask]
  /\ UNCHANGED <<auxVars, rpcUrls, head, storeVars, runs>>

NextRestart == restart \/ Next

\* Base alone configured; the event loop keeps taking the steps of the
\* invocations and the cron triggers keep firing.
SpecRestart == InitBase /\ [][NextRestart]_vars /\ WF_vars(Next)

\* C27: a running flag that is set in the store is cleared again, so that
\* the ticks of its (kind, chain) are not skipped forever, however the
\* invocation that set it has ended.
C27_RunningEventuallyCleared ==
  \A k \in AllKeys : status[k].isRunning ~> ~status[k].isRunning

\* -------------------------------------------------------------------- C29
\* C29: for every range isValidTimeRange accepts, getStartTime returns a
\* start time and not null.
C29_ValidRangeHasStartTime ==
  (call.fn = "parseTimeRange" /\ call.done /\ call.valid) => call.start # null

\* ================================================== admin login (lock-out)
\* Admin.js:92 (loginAttempts + 1 >= 5) and Admin.js:93 (2 hours); the
\* clock counts hours.
maxLoginAttempts == 5
lockTime == 2

\* The virtual isLocked of document d at time `at`.
isLocked(d, at) == \E until \in d.lockUntil : until > at

loginFrame ==
  UNCHANGED <<rpcUrls, initialized, head, status, orders, nextId, metricsRows,
              snapshots, runs, faultsLeft, task, dbVars, call, connectorVars,
              priceCache, lastApiCall>>

\* POST /login up to its first update: Admin.findOne, the isLocked check
\* (423) and comparePassword.  The request carries the right or a wrong
\* password.
login(r) ==
  /\ logins[r].pc = "idle"
  /\ \A q \in Requests : q < r => logins[q].pc # "idle"
  /\ \E password \in {"right", "wrong"} :
       logins' = [logins EXCEPT ![r] =
          IF isLocked(admin, clock)
          THEN [IdleLogin EXCEPT !.response = 423, !.password = password, !.admin = admin]
          ELSE [pc |-> IF password = "right" THEN "resetLoginAttempts"
                                              ELSE "incLoginAttempts",
                password |-> password, response |-> 0, admin |-> admin]]
  /\ UNCHANGED <<admin, failedLogins, clock>>
  /\ loginFrame

\* admin.incLoginAttempts() at time `at`: the update it sends, decided on
\* the loaded document `this`, applied to the stored one.
incLoginAttempts(stored, this, at) ==
  IF \E until \in this.lockUntil : until < at
  THEN [loginAttempts |-> 1, lockUntil |-> {}]
  ELSE IF this.loginAttempts + 1 >= maxLoginAttempts /\ ~isLocked(this, at)
       THEN [loginAttempts |-> stored.loginAttempts + 1, lockUntil |-> {at + lockTime}]
       ELSE [stored EXCEPT !.loginAttempts = @ + 1]

\* The wrong password: await admin.incLoginAttempts(), then 401.
loginFailed(r) ==
  /\ logins[r].pc = "incLoginAttempts"
  /\ admin' = incLoginAttempts(admin, logins[r].admin, clock)
  /\ failedLogins' = IF admin'.loginAttempts = 1 THEN 1 ELSE failedLogins + 1
  /\ logins' = [logins EXCEPT ![r] = [@ EXCEPT !.pc = "idle", !.response = 401]]
  /\ UNCHANGED clock
  /\ loginFrame

\* admin.resetLoginAttempts(): $unset of loginAttempts and lockUntil (a
\* document without loginAttempts loads with the default 0).
resetLoginAttempts(stored) == [loginAttempts |-> 0, lockUntil |-> {}]

\* The right password: await admin.resetLoginAttempts(), the lastLogin save
\* and the token (200).
loginSucceeded(r) ==
  /\ logins[r].pc = "resetLoginAttempts"
  /\ admin' = resetLoginAttempts(admin)
  /\ failedLogins' = 0
  /\ logins' = [logins EXCEPT ![r] = [@ EXCEPT !.pc = "idle", !.response = 200]]
  /\ UNCHANGED clock
  /\ loginFrame

LoginStep(r) == login(r) \/ loginFailed(r) \/ loginSucceeded(r)

InitLogin ==
  /\ JobsIdle
  /\ ServicesIdle
  /\ ConnectorIdle
  /\ call = NoCall

NextLogin == tick \/ \E r \in Requests : LoginStep(r)

SpecLogin == InitLogin /\ [][NextLogin]_vars

\* -------------------------------------------------------------------- C30
\* C30: after maxLoginAttempts failed logins in a row the account is locked,
\* the lock is set for lockTime and stays while it has not expired; a login
\* request that arrives while the account is locked is rejected whatever its
\* password and no login succeeds while it is locked; a successful login
\* clears the attempt count; the first failed login after the lock has
\* expired restarts the count at 1.
C30_LockAfterFiveFailures ==
  /\ [](failedLogins >= maxLoginAttempts => admin.lockUntil # {})
  /\ [][/\ admin'.lockUntil \notin {admin.lockUntil, {}} =>
             admin'.lockUntil = {clock + lockTime}
        /\ (isLocked(admin, clock) /\ clock' = clock) => admin'.lockUntil = admin.lockUntil
        /\ \A r \in Requests :
             /\ (isLocked(admin, clock) /\ logins[r].pc = "idle" /\ logins'[r] # logins[r])
                   => (logins'[r].pc = "idle" /\ logins'[r].response = 423)
             /\ (logins'[r] # logins[r] /\ logins'[r].response = 200)
                   => (~isLocked(admin, clock) /\ admin'.loginAttempts = 0)
             /\ (logins'[r] # logins[r] /\ logins'[r].response = 401
                 /\ \E until \in admin.lockUntil : until < clock)
                   => admin'.loginAttempts = 1]_vars

====
